---------------------------- MODULE Spec2Model ----------------------------
(***************************************************************************)
(* my-notes: a Docusaurus site.  The repository holds declarative data     *)
(* (docusaurus.config.ts, sidebars.ts), one presentational component       *)
(* (src/pages/index.tsx) and markdown documents under docs/.  The model    *)
(* takes a checkout of the repository (one version of sidebars.ts, one     *)
(* version of index.tsx, the docs tree), builds it the way the framework   *)
(* is said to (load the configuration, the documents and the sidebar,      *)
(* generate the routes, render the pages, check the links, publish) and    *)
(* then serves the published site to visitors.                             *)
(***************************************************************************)
EXTENDS Integers, Sequences, FiniteSets, TLC

(***************************************************************************)
(* Bounds of the model.                                                    *)
(***************************************************************************)
\* number of visitors of the served site
MaxVisitors == 2
\* number of years the build clock may advance past FirstYear
MaxYears == 1
\* number of builds of one checkout
MaxBuilds == 2
\* first year of the build clock
FirstYear == 2025

(***************************************************************************)
(* Sidebar items.  A string item 'dir/name' of sidebars.ts is the          *)
(* shorthand of {type: 'doc', id: 'dir/name'}; an object literal           *)
(* {type: 'category', ...} is an object of its own, named here by the      *)
(* line of its opening brace, and an items list holds a reference to it.   *)
(***************************************************************************)
D(id) == [type |-> "doc", id |-> id]

R(line) == [type |-> "ref", ref |-> line]

Category(label, items) == [type |-> "category", label |-> label, items |-> items]

(***************************************************************************)
(* sidebars.ts, current version (unnamed/part_009, lines 3-74).            *)
(***************************************************************************)
SidebarCurrentObjects ==
    (5 :> Category("Frontend",
            << D("frontend/typescript"), D("frontend/react"),
               D("frontend/nextjs"), D("frontend/angularjs") >>))
 @@ (15 :> Category("Backend",
            << D("backend/nodejs"), D("backend/expressjs"),
               D("backend/postgresql"), D("backend/api-platform"), R(23) >>))
 @@ (23 :> Category("Symfony",
            << D("symfony/introduction"), D("symfony/installation"),
               D("symfony/project-workflow"), D("symfony/mvc"),
               D("symfony/model"), D("symfony/view"),
               D("symfony/controller"), D("symfony/form"),
               D("symfony/services"), D("symfony/security") >>))
 @@ (41 :> Category("Testing",
            << D("test/test-types"), D("test/test-frontend"),
               D("test/test-backend") >>))
 @@ (50 :> Category("Github",
            << D("github/work-in-group"), D("github/useful-commands") >>))
 @@ (58 :> Category("Projects",
            << D("projects/task-manager"), D("projects/cv-ai-assistant") >>))
 @@ (66 :> Category("Internship",
            << D("internship/internship-stack") >>))

\* the current sidebar still listing symfony/routing, as part_008 does
SidebarCurrentWithRouting ==
    [objects |-> [SidebarCurrentObjects EXCEPT
                     ![23].items = Append(@, D("symfony/routing"))],
     exports |-> [notesSidebar |-> << R(5), R(15), R(41), R(50), R(58), R(66) >>]]

\* the current sidebar with the Symfony category object listed twice: under
\* Backend and at the top level
SidebarCurrentSharedSymfony ==
    [objects |-> SidebarCurrentObjects,
     exports |-> [notesSidebar |->
                     << R(5), R(15), R(23), R(41), R(50), R(58), R(66) >>]]

\* the current sidebar listing frontend/react a second time, under Internship
SidebarCurrentReactTwice ==
    [objects |-> [SidebarCurrentObjects EXCEPT
                     ![66].items = Append(@, D("frontend/react"))],
     exports |-> [notesSidebar |-> << R(5), R(15), R(41), R(50), R(58), R(66) >>]]

\* the current sidebar without its Internship category, as in part_008
SidebarCurrentNoInternship ==
    [objects |-> SidebarCurrentObjects,
     exports |-> [notesSidebar |-> << R(5), R(15), R(41), R(50), R(58) >>]]

SidebarCurrent ==
    [objects |-> SidebarCurrentObjects,
     exports |-> [notesSidebar |-> << R(5), R(15), R(41), R(50), R(58), R(66) >>]]

(***************************************************************************)
(* sidebars.ts, the version of unnamed/part_008 (lines 3-59).              *)
(***************************************************************************)
SidebarPart008Objects ==
    (5 :> Category("Frontend",
            << D("frontend/react"), D("frontend/nextjs"),
               D("frontend/typescript"), D("frontend/angularjs") >>))
 @@ (15 :> Category("Backend",
            << D("backend/nodejs"), D("backend/expressjs"),
               D("backend/postgresql"), D("backend/api-platform"), R(23) >>))
 @@ (23 :> Category("Symfony",
            << D("symfony/introduction"), D("symfony/installation"),
               D("symfony/project-workflow"), D("symfony/mvc"),
               D("symfony/model"), D("symfony/view"),
               D("symfony/controller"), D("symfony/form"),
               D("symfony/routing"), D("symfony/services"),
               D("symfony/security") >>))
 @@ (42 :> Category("Github guide",
            << D("github/work-in-group"), D("github/useful-commands") >>))
 @@ (50 :> Category("Projects",
            << D("projects/task-manager"), D("projects/cv-ai-assistant") >>))

SidebarPart008 ==
    [objects |-> SidebarPart008Objects,
     exports |-> [notesSidebar |-> << R(5), R(15), R(42), R(50) >>]]

(***************************************************************************)
(* sidebars.ts, the version of unnamed/part_010 (lines 3-52); the Symfony  *)
(* category lists one document, the others are commented out.              *)
(***************************************************************************)
SidebarPart010Objects ==
    (5 :> Category("Frontend",
            << D("frontend/react"), D("frontend/nextjs"),
               D("frontend/typescript"), D("frontend/angularjs") >>))
 @@ (15 :> Category("Backend",
            << D("backend/nodejs"), D("backend/expressjs"),
               D("backend/postgresql"), D("backend/api-platform"), R(23) >>))
 @@ (23 :> Category("Symfony", << D("symfony/introduction") >>))
 @@ (42 :> Category("Projects",
            << D("projects/project1"), D("projects/project2"),
               D("projects/project3") >>))

SidebarPart010 ==
    [objects |-> SidebarPart010Objects,
     exports |-> [notesSidebar |-> << R(5), R(15), R(42) >>]]

(***************************************************************************)
(* sidebars.ts, the second version of unnamed/part_009 (lines 80-112).     *)
(***************************************************************************)
SidebarPart009OldObjects ==
    (82 :> Category("Frontend",
            << D("frontend/react"), D("frontend/nextjs"),
               D("frontend/typescript") >>))
 @@ (91 :> Category("Backend",
            << D("backend/nodejs"), D("backend/expressjs"),
               D("backend/postgresql"), D("backend/symfony"),
               D("backend/api-platform") >>))
 @@ (102 :> Category("Projects",
            << D("projects/project1"), D("projects/project2"),
               D("projects/project3") >>))

SidebarPart009Old ==
    [objects |-> SidebarPart009OldObjects,
     exports |-> [notesSidebar |-> << R(82), R(91), R(102) >>]]

\* every version of sidebars.ts in the repository; the last is the current one
SidebarVersions ==
    << SidebarPart009Old, SidebarPart010, SidebarPart008, SidebarCurrent >>

CurrentSidebarVersion == Len(SidebarVersions)

(***************************************************************************)
(* Content documents.  A file docs/<dir>/<name>.<ext> with its front       *)
(* matter; "" stands for a front-matter field the file does not set.  No   *)
(* document of the repository opens with a front-matter block: each starts *)
(* with its "# Title" line.                                                *)
(***************************************************************************)
NoFrontMatter == [id |-> "", slug |-> ""]

File(dir, name, ext) ==
    [dir |-> dir, name |-> name, ext |-> ext, frontMatter |-> NoFrontMatter]

\* react.md opening with a front-matter block that sets a slug
Doc_frontend_react_slug ==
    [dir |-> "frontend", name |-> "react", ext |-> "md",
     frontMatter |-> [id |-> "", slug |-> "/frontend/react-cheatsheet"]]

\* documents whose path is given in the repository
Doc_frontend_react == File("frontend", "react", "md")

Doc_frontend_nextjs == File("frontend", "nextjs", "md")

Doc_frontend_typescript == File("frontend", "typescript", "md")

Doc_frontend_angularjs == File("frontend", "angularjs", "md")

Doc_backend_expressjs == File("backend", "expressjs", "md")

Doc_backend_api_platform == File("backend", "api-platform", "md")

Doc_test_test_types == File("test", "test-types", "md")

Doc_internship_internship_stack == File("internship", "internship-stack", "md")

Doc_symfony_security == File("symfony", "security", "md")

Doc_symfony_form == File("symfony", "form", "md")

Doc_symfony_model == File("symfony", "model", "md")

Doc_symfony_controller == File("symfony", "controller", "md")

Doc_symfony_mvc == File("symfony", "mvc", "md")

\* documents whose text is in the repository under an unknown name; the path
\* is the one the sidebar gives the document of that title
Doc_backend_nodejs == File("backend", "nodejs", "md")

Doc_backend_postgresql == File("backend", "postgresql", "md")

Doc_symfony_introduction == File("symfony", "introduction", "md")

Doc_symfony_installation == File("symfony", "installation", "md")

Doc_symfony_project_workflow == File("symfony", "project-workflow", "md")

Doc_symfony_view == File("symfony", "view", "md")

Doc_symfony_services == File("symfony", "services", "md")

Doc_github_work_in_group == File("github", "work-in-group", "md")

Doc_github_useful_commands == File("github", "useful-commands", "md")

\* documents the sidebar and the landing page name and whose text is not
\* among the source files: taken to exist, as the specification states
DocsFromSpec ==
    << File("test", "test-frontend", "md"), File("test", "test-backend", "md"),
       File("projects", "task-manager", "md"),
       File("projects", "cv-ai-assistant", "md") >>

\* the docs tree, in the order the build reads it
DocFiles ==
    << Doc_backend_api_platform, Doc_backend_expressjs, Doc_backend_nodejs,
       Doc_backend_postgresql, Doc_frontend_angularjs, Doc_frontend_nextjs,
       Doc_frontend_react, Doc_frontend_typescript, Doc_github_useful_commands,
       Doc_github_work_in_group, Doc_internship_internship_stack >>
    \o SubSeq(DocsFromSpec, 3, 4)
    \o << Doc_symfony_controller, Doc_symfony_form, Doc_symfony_installation,
          Doc_symfony_introduction, Doc_symfony_model, Doc_symfony_mvc,
          Doc_symfony_project_workflow, Doc_symfony_security,
          Doc_symfony_services, Doc_symfony_view >>
    \o SubSeq(DocsFromSpec, 1, 2)
    \o << Doc_test_test_types >>

(***************************************************************************)
(* The landing page, src/pages/index.tsx.  Home takes no props; env is     *)
(* what the body of a component could read or write besides its props: the *)
(* clock and the state shared by all renders.  Home reads none of it and   *)
(* leaves the shared state as it found it.                                 *)
(***************************************************************************)
Card(to, heading, text) == [to |-> to, heading |-> heading, text |-> text]

\* Home of unnamed/part_000 (lines 7-45): three cards (the title without
\* the emoji it opens with, the dash of the first card in ASCII)
HomePart000(env) ==
    [tree |->
        [title |-> "Programming Cheatsheets",
         cta |-> "/docs/frontend/react",
         cards |->
            << Card("/docs/frontend/react", "Frontend",
                    "React, Next.js, TypeScript - all frontend cheatsheets"),
               Card("/docs/backend/nodejs", "Backend",
                    "Node.js, ExpressJS, PostgreSQL, Symfony, API Platform"),
               Card("/docs/projects/project1", "Projects",
                    "Step-by-step project guides and practical tutorials") >>],
     shared |-> env.shared]

\* the cards of Home, src/pages/index.tsx (lines 23-48)
CurrentCards ==
    << Card("/docs/frontend/react", "Frontend",
            "React, Next.js, TypeScript and many more ..."),
       Card("/docs/backend/nodejs", "Backend",
            "Node.js, ExpressJS, PostgreSQL, Symfony, API Platform ..."),
       Card("/docs/test/test-types", "Testing",
            "A comprehensive testing cheat sheet"),
       Card("/docs/projects/cv-ai-assistant", "Projects",
            "Step-by-step project guides") >>

\* Home whose Projects card kept the link of the older page
HomeStaleProjectLink(env) ==
    [tree |-> [title |-> "Web Dev Cheatsheets", cta |-> "/docs/frontend/react",
               cards |-> [CurrentCards EXCEPT ![4].to = "/docs/projects/project1"]],
     shared |-> env.shared]

\* Home sorting the imported sidebar in place while rendering
HomeSortingSidebar(env) ==
    [tree |-> [title |-> "Web Dev Cheatsheets", cta |-> "/docs/frontend/react",
               cards |-> CurrentCards],
     shared |-> [env.shared EXCEPT
                    !.sidebar = IF "notesSidebar" \in DOMAIN @.exports
                                THEN [@ EXCEPT !.exports.notesSidebar =
                                         [i \in DOMAIN @ |-> @[Len(@) + 1 - i]]]
                                ELSE @]]

\* Home writing to the state all visitors share
HomeTouchingSite(env) ==
    [tree |-> [title |-> "Web Dev Cheatsheets", cta |-> "/docs/frontend/react",
               cards |-> CurrentCards],
     shared |-> [env.shared EXCEPT
                    !.site = { [q EXCEPT !.footer = "visited"] : q \in @ }]]

\* Home whose Testing card links to a document the sidebar does not list
HomeLinkingUnlisted(env) ==
    [tree |-> [title |-> "Web Dev Cheatsheets", cta |-> "/docs/frontend/react",
               cards |-> [CurrentCards EXCEPT ![3].to = "/docs/test/test-e2e"]],
     shared |-> env.shared]

\* Home rendering the current year in its title
HomeWithYear(env) ==
    [tree |-> [title |-> "Web Dev Cheatsheets " \o ToString(env.year),
               cta |-> "/docs/frontend/react", cards |-> CurrentCards],
     shared |-> env.shared]

\* Home of src/pages/index.tsx (lines 7-52): four cards
Home(env) ==
    [tree |-> [title |-> "Web Dev Cheatsheets", cta |-> "/docs/frontend/react",
               cards |-> CurrentCards],
     shared |-> env.shared]

\* number of versions of index.tsx in the repository; the last is the current one
HomeVersionCount == 2

CurrentHomeVersion == HomeVersionCount

HomeVersion(v, env) == IF v = CurrentHomeVersion THEN Home(env) ELSE HomePart000(env)

(***************************************************************************)
(* docusaurus.config.ts.  The module is evaluated when a build loads it;   *)
(* year is the value of new Date().getFullYear() at that moment.           *)
(***************************************************************************)
\* the sidebar id of the framework's template
sidebarIdTemplate == "tutorialSidebar"

onBrokenLinks == "throw"

onBrokenMarkdownLinks == "warn"

sidebarId == "notesSidebar"

\* a default locale changed without the list of locales
i18nDefaultNotListed == [defaultLocale |-> "fr", locales |-> << "en" >>]

i18n == [defaultLocale |-> "en", locales |-> << "en" >>]

\* A colour mode that leaves the choice to the visitor's system: the change
\* that C16 must detect.
colorModeFollowingSystem == [defaultMode |-> "dark", respectPrefersColorScheme |-> TRUE]

colorMode == [defaultMode |-> "dark", respectPrefersColorScheme |-> FALSE]

navbar ==
    [title |-> "Home",
     logo |-> [alt |-> "My Notes Logo", src |-> "img/HXH.png",
               className |-> "custom-logo"],
     items |->
        << [type |-> "docSidebar", sidebarId |-> sidebarId,
            position |-> "left", label |-> "Notes"],
           [type |-> "href", href |-> "https://github.com/HnHoussi/my-notes",
            label |-> "GitHub", position |-> "right"] >>]

footer(year) ==
    [style |-> "dark",
     copyright |-> "Made with Love © " \o ToString(year) \o " HN Notes"]

\* a configuration whose title carries the build's year too
configStamped(year) ==
    [title |-> "My Notes " \o ToString(year),
     tagline |-> "Cheatsheets and study notes",
     favicon |-> "img/favicon.ico",
     url |-> "https://HnHoussi.github.io",
     baseUrl |-> "/",
     organizationName |-> "HnHoussi",
     projectName |-> "my-notes",
     onBrokenLinks |-> onBrokenLinks,
     onBrokenMarkdownLinks |-> onBrokenMarkdownLinks,
     i18n |-> i18n,
     docs |-> [sidebarPath |-> "./sidebars.ts",
               editUrl |-> "https://github.com/HnHoussi/my-notes/edit/main/"],
     colorMode |-> colorMode,
     navbar |-> navbar,
     footer |-> footer(year)]

config(year) ==
    [title |-> "My Notes",
     tagline |-> "Cheatsheets and study notes",
     favicon |-> "img/favicon.ico",
     url |-> "https://HnHoussi.github.io",
     baseUrl |-> "/",
     organizationName |-> "HnHoussi",
     projectName |-> "my-notes",
     onBrokenLinks |-> onBrokenLinks,
     onBrokenMarkdownLinks |-> onBrokenMarkdownLinks,
     i18n |-> i18n,
     docs |-> [sidebarPath |-> "./sidebars.ts",
               editUrl |-> "https://github.com/HnHoussi/my-notes/edit/main/"],
     colorMode |-> colorMode,
     navbar |-> navbar,
     footer |-> footer(year)]

(***************************************************************************)
(* What the framework derives from the files.                              *)
(***************************************************************************)
\* a document's identifier: its path under docs/ without the extension,
\* the last segment replaced by the front matter's id when it sets one
DocId(f) ==
    f.dir \o "/" \o (IF f.frontMatter.id # "" THEN f.frontMatter.id ELSE f.name)

\* the route a document is served at: the front matter's slug when it sets
\* one, else /docs/<identifier>
Permalink(f) ==
    IF f.frontMatter.slug # "" THEN "/docs" \o f.frontMatter.slug
    ELSE "/docs/" \o DocId(f)

SourcePath(f) == "docs/" \o f.dir \o "/" \o f.name \o "." \o f.ext

Metadata(f) == [id |-> DocId(f), permalink |-> Permalink(f), source |-> SourcePath(f)]

SeqRange(q) == { q[i] : i \in DOMAIN q }

ItemDocIds(items) == { it.id : it \in { x \in SeqRange(items) : x.type = "doc" } }

ItemRefs(items) == { it.ref : it \in { x \in SeqRange(items) : x.type = "ref" } }

\* the category objects reachable from a set of references
RECURSIVE ReachFrom(_, _, _)
ReachFrom(objects, frontier, seen) ==
    IF frontier \subseteq seen THEN seen
    ELSE ReachFrom(objects,
                   UNION { ItemRefs(objects[k].items) :
                              k \in (frontier \ seen) \cap DOMAIN objects },
                   seen \cup frontier)

SidebarObjects(sb, name) == ReachFrom(sb.objects, ItemRefs(sb.exports[name]), {})

\* every document identifier a sidebar lists, at any depth
SidebarDocIds(sb, name) ==
    ItemDocIds(sb.exports[name])
    \cup UNION { ItemDocIds(sb.objects[k].items) :
                    k \in SidebarObjects(sb, name) \cap DOMAIN sb.objects }

\* the first document of a sidebar, depth first: the target of a navbar
\* item of type docSidebar
RECURSIVE FirstDoc(_, _, _)
FirstDoc(objects, items, fuel) ==
    IF items = << >> \/ fuel = 0 THEN ""
    ELSE LET it == Head(items) IN
         IF it.type = "doc" THEN it.id
         ELSE LET sub == IF it.ref \in DOMAIN objects
                         THEN FirstDoc(objects, objects[it.ref].items, fuel - 1)
                         ELSE ""
              IN IF sub # "" THEN sub ELSE FirstDoc(objects, Tail(items), fuel)

\* the internal links of the navbar: the logo links to the base URL, a
\* docSidebar item to the first document of its sidebar; href items are external
NavbarLinks(cfg, sb) ==
    { cfg.baseUrl }
    \cup { "/docs/" \o FirstDoc(sb.objects, sb.exports[it.sidebarId],
                                Cardinality(DOMAIN sb.objects) + 1) :
             it \in { x \in SeqRange(cfg.navbar.items) : x.type = "docSidebar" } }

HomeLinks(tree) == { tree.cta } \cup { c.to : c \in SeqRange(tree.cards) }

(***************************************************************************)
(* State.                                                                  *)
(***************************************************************************)
VARIABLES
    sidebarVersion,  \* the version of sidebars.ts in the checkout
    homeVersion,     \* the version of index.tsx in the checkout
    clock,           \* the year
    builds,          \* builds started so far
    phase,           \* where the current build stands
    error,           \* why the build failed, "" when it has not
    siteConfig,      \* the configuration this build evaluated
    evaluations,     \* every value the configuration module evaluated to
    docs,            \* the metadata of the documents read
    sidebar,         \* the sidebar taxonomy as loaded
    sidebarReads,    \* times this build read the sidebar file
    routes,          \* the routes generated
    pages,           \* the pages rendered, by route
    brokenLinks,     \* the internal links found without a route
    warnings,        \* warnings this build reported
    site,            \* the published site, by route
    response,        \* the last response each visitor got
    rendered,        \* what Home last rendered in each visitor's browser
    theme            \* the colour mode each visitor's browser started with

vars == << sidebarVersion, homeVersion, clock, builds, phase, error, siteConfig,
           evaluations, docs, sidebar, sidebarReads, routes, pages, brokenLinks,
           warnings, site, response, rendered, theme >>

Visitors == 1..MaxVisitors

NoConfig == [title |-> ""]

NoSidebar == [objects |-> << >>, exports |-> << >>]

NoSite == {}

NoResponse == [route |-> "", status |-> 0]

NotRendered == [title |-> ""]

NoTheme == [prefers |-> "", mode |-> ""]

\* the routes a visitor may ask for: the landing page, two documents, a
\* document of an older version of the site
RequestRoutes ==
    { "/", "/docs/frontend/react", "/docs/projects/project1" }

Init ==
    /\ sidebarVersion \in 1..Len(SidebarVersions)
    /\ homeVersion \in 1..HomeVersionCount
    /\ clock = FirstYear
    /\ builds = 0
    /\ phase = "idle"
    /\ error = ""
    /\ siteConfig = NoConfig
    /\ evaluations = {}
    /\ docs = << >>
    /\ sidebar = NoSidebar
    /\ sidebarReads = 0
    /\ routes = {}
    /\ pages = {}
    /\ brokenLinks = {}
    /\ warnings = {}
    /\ site = NoSite
    /\ response = [v \in Visitors |-> NoResponse]
    /\ rendered = [v \in Visitors |-> NotRendered]
    /\ theme = [v \in Visitors |-> NoTheme]

(***************************************************************************)
(* The build.                                                              *)
(***************************************************************************)
\* what a component's body can reach besides its props
Env == [year |-> clock, shared |-> [sidebar |-> sidebar, site |-> site]]

\* a build starts from a clean slate; the published site stays in place
StartBuild ==
    /\ phase \in { "idle", "published", "failed" }
    /\ builds < MaxBuilds
    /\ builds' = builds + 1
    /\ phase' = "started"
    /\ error' = ""
    /\ siteConfig' = NoConfig
    /\ docs' = << >>
    /\ sidebar' = NoSidebar
    /\ sidebarReads' = 0
    /\ routes' = {}
    /\ pages' = {}
    /\ brokenLinks' = {}
    /\ warnings' = {}
    /\ UNCHANGED << theme, sidebarVersion, homeVersion, clock, evaluations, site,
                    response, rendered >>

\* the configuration module is evaluated, at the clock's year
LoadConfig ==
    /\ phase = "started"
    /\ siteConfig' = config(clock)
    /\ evaluations' = evaluations \cup { config(clock) }
    /\ phase' = "configLoaded"
    /\ UNCHANGED << theme, sidebarVersion, homeVersion, clock, builds, error, docs,
                    sidebar, sidebarReads, routes, pages, brokenLinks, warnings,
                    site, response, rendered >>

\* the docs plugin reads every document, then the sidebar file named by
\* sidebarPath, and refuses a sidebar that lists an unknown document
LoadContent ==
    /\ phase = "configLoaded"
    /\ LET read == [i \in DOMAIN DocFiles |-> Metadata(DocFiles[i])]
           sb == SidebarVersions[sidebarVersion]
           known == { m.id : m \in SeqRange(read) }
           listed == UNION { SidebarDocIds(sb, n) : n \in DOMAIN sb.exports }
       IN /\ docs' = read
          /\ sidebar' = sb
          /\ sidebarReads' = sidebarReads + 1
          /\ IF listed \subseteq known
             THEN phase' = "contentLoaded" /\ error' = error
             ELSE phase' = "failed" /\ error' = "sidebarDocIds"
    /\ UNCHANGED << theme, sidebarVersion, homeVersion, clock, builds, siteConfig,
                    evaluations, routes, pages, brokenLinks, warnings, site,
                    response, rendered >>

\* one route per document, and one for the landing page
CreateRoutes ==
    /\ phase = "contentLoaded"
    /\ routes' = { siteConfig.baseUrl } \cup { m.permalink : m \in SeqRange(docs) }
    /\ phase' = "routesCreated"
    /\ UNCHANGED << theme, sidebarVersion, homeVersion, clock, builds, error, siteConfig,
                    evaluations, docs, sidebar, sidebarReads, pages, brokenLinks,
                    warnings, site, response, rendered >>

DocPage(m, cfg, sb) ==
    [route |-> m.permalink, body |-> [title |-> m.source],
     links |-> NavbarLinks(cfg, sb), footer |-> cfg.footer.copyright]

HomePage(tree, cfg, sb) ==
    [route |-> cfg.baseUrl, body |-> tree,
     links |-> NavbarLinks(cfg, sb) \cup HomeLinks(tree),
     footer |-> cfg.footer.copyright]

\* every route is rendered to a page; the navbar needs the sidebar it names
RenderPages ==
    /\ phase = "routesCreated"
    /\ LET home == HomeVersion(homeVersion, Env) IN
       IF \A it \in SeqRange(siteConfig.navbar.items) :
              it.type = "docSidebar" => it.sidebarId \in DOMAIN sidebar.exports
       THEN /\ pages' = { HomePage(home.tree, siteConfig, home.shared.sidebar) }
                        \cup { DocPage(m, siteConfig, home.shared.sidebar) :
                                  m \in SeqRange(docs) }
            /\ sidebar' = home.shared.sidebar
            /\ site' = home.shared.site
            /\ phase' = "rendered"
            /\ error' = error
       ELSE /\ phase' = "failed"
            /\ error' = "navbarSidebar"
            /\ UNCHANGED << pages, sidebar, site >>
    /\ UNCHANGED << theme, sidebarVersion, homeVersion, clock, builds, siteConfig,
                    evaluations, docs, sidebarReads, routes, brokenLinks,
                    warnings, response, rendered >>

\* the links of every page are checked against the routes; what a broken
\* link does is the configuration's onBrokenLinks
CheckLinks ==
    /\ phase = "rendered"
    /\ LET broken == { [page |-> p.route, link |-> l] :
                          p \in pages, l \in UNION { q.links : q \in pages } }
           found == { b \in broken :
                         /\ b.link \in (CHOOSE p \in pages : p.route = b.page).links
                         /\ b.link \notin routes }
       IN /\ brokenLinks' = found
          /\ IF found # {} /\ siteConfig.onBrokenLinks = "throw"
             THEN phase' = "failed" /\ error' = "brokenLinks" /\ warnings' = warnings
             ELSE /\ phase' = "checked"
                  /\ error' = error
                  /\ warnings' = IF found # {} /\ siteConfig.onBrokenLinks = "warn"
                                 THEN warnings \cup { "brokenLinks" }
                                 ELSE warnings
    /\ UNCHANGED << theme, sidebarVersion, homeVersion, clock, builds, siteConfig,
                    evaluations, docs, sidebar, sidebarReads, routes, pages, site,
                    response, rendered >>

\* the pages of a build that passed replace the published site
Publish ==
    /\ phase = "checked"
    /\ site' = pages
    /\ phase' = "published"
    /\ UNCHANGED << theme, sidebarVersion, homeVersion, clock, builds, error, siteConfig,
                    evaluations, docs, sidebar, sidebarReads, routes, pages,
                    brokenLinks, warnings, response, rendered >>

\* a year passes
Tick ==
    /\ clock < FirstYear + MaxYears
    /\ clock' = clock + 1
    /\ UNCHANGED << theme, sidebarVersion, homeVersion, builds, phase, error, siteConfig,
                    evaluations, docs, sidebar, sidebarReads, routes, pages,
                    brokenLinks, warnings, site, response, rendered >>

(***************************************************************************)
(* The served site.                                                        *)
(***************************************************************************)
\* the static file of a route, or 404
Serve(files, r) ==
    IF \E p \in files : p.route = r
    THEN [route |-> r, status |-> 200, page |-> CHOOSE p \in files : p.route = r]
    ELSE [route |-> r, status |-> 404]

\* visitor v asks for route r of the published site
Request(v, r) ==
    /\ site # NoSite
    /\ response' = [response EXCEPT ![v] = Serve(site, r)]
    /\ UNCHANGED << theme, sidebarVersion, homeVersion, clock, builds, phase, error,
                    siteConfig, evaluations, docs, sidebar, sidebarReads, routes,
                    pages, brokenLinks, warnings, site, rendered >>

\* the landing page a visitor received renders Home in the visitor's browser
Render(v) ==
    /\ response[v].status = 200
    /\ response[v].route = "/"
    /\ LET home == HomeVersion(homeVersion, Env) IN
       /\ rendered' = [rendered EXCEPT ![v] = home.tree]
       /\ sidebar' = home.shared.sidebar
       /\ site' = home.shared.site
    /\ UNCHANGED << theme, sidebarVersion, homeVersion, clock, builds, phase, error,
                    siteConfig, evaluations, docs, sidebarReads, routes, pages,
                    brokenLinks, warnings, response >>

Next ==
    \/ StartBuild
    \/ LoadConfig
    \/ LoadContent
    \/ CreateRoutes
    \/ RenderPages
    \/ CheckLinks
    \/ Publish
    \/ Tick
    \/ \E v \in Visitors, r \in RequestRoutes : Request(v, r)
    \/ \E v \in Visitors : Render(v)

Spec == Init /\ [][Next]_vars

\* ---------------------------------------------------------------------
\* The colour mode of a first visit.  The visitors' system preferences
\* are inputs of their own, so they are explored in a specification of
\* their own: the current checkout, built once and then visited.

\* What a browser reports for prefers-color-scheme; "none" is a browser
\* that reports no preference.
SystemPreferences == { "light", "dark", "none" }

\* The mode a page starts in when the browser holds no stored choice:
\* the system's preference when the site respects it and there is one,
\* the configured default otherwise.
InitialColorMode(cm, prefers) ==
    IF cm.respectPrefersColorScheme /\ prefers \in { "light", "dark" }
    THEN prefers
    ELSE cm.defaultMode

\* A visitor's browser shows its first page of the published site.
FirstVisit(v, prefers) ==
    /\ site # NoSite
    /\ siteConfig # NoConfig
    /\ response[v].status = 200
    /\ theme[v] = NoTheme
    /\ theme' = [theme EXCEPT ![v] =
                    [prefers |-> prefers,
                     mode |-> InitialColorMode(siteConfig.colorMode, prefers)]]
    /\ UNCHANGED << sidebarVersion, homeVersion, clock, builds, phase, error,
                    siteConfig, evaluations, docs, sidebar, sidebarReads, routes,
                    pages, brokenLinks, warnings, site, response, rendered >>

FirstBuild ==
    /\ builds = 0
    /\ StartBuild

InitColorMode ==
    /\ Init
    /\ sidebarVersion = CurrentSidebarVersion
    /\ homeVersion = CurrentHomeVersion

NextColorMode ==
    \/ FirstBuild
    \/ LoadConfig
    \/ LoadContent
    \/ CreateRoutes
    \/ RenderPages
    \/ CheckLinks
    \/ Publish
    \/ \E v \in Visitors, r \in RequestRoutes : Request(v, r)
    \/ \E v \in Visitors : Render(v)
    \/ \E v \in Visitors, prefers \in SystemPreferences : FirstVisit(v, prefers)

SpecColorMode == InitColorMode /\ [][NextColorMode]_vars

(***************************************************************************)
(* Properties.                                                             *)
(***************************************************************************)
CurrentCheckout ==
    sidebarVersion = CurrentSidebarVersion /\ homeVersion = CurrentHomeVersion

ContentFilePaths == { SourcePath(f) : f \in SeqRange(DocFiles) }

TopPlaces(sb, k) ==
    { p \in UNION { { << n, i >> : i \in DOMAIN sb.exports[n] } : n \in DOMAIN sb.exports } :
         sb.exports[p[1]][p[2]] = R(k) }

ItemPlaces(sb, k) ==
    { p \in UNION { { << o, i >> : i \in DOMAIN sb.objects[o].items } : o \in DOMAIN sb.objects } :
         sb.objects[p[1]].items[p[2]] = R(k) }

Descendants(sb, k) == ReachFrom(sb.objects, ItemRefs(sb.objects[k].items), {})

WellFormedItem(sb, it) ==
    \/ it.type = "doc" /\ it.id # ""
    \/ it.type = "ref" /\ it.ref \in DOMAIN sb.objects

\* C3: every sidebar definition is a finite tree: the exported list holds
\* category nodes only, every category has a label and a list of items each
\* of which is a document identifier or a category, no category is among
\* its own descendants and none is held in two places.
C3_SidebarIsTree ==
    sidebar # NoSidebar =>
        /\ \A n \in DOMAIN sidebar.exports :
              /\ DOMAIN sidebar.exports[n] = 1..Len(sidebar.exports[n])
              /\ \A it \in SeqRange(sidebar.exports[n]) :
                    it.type = "ref" /\ it.ref \in DOMAIN sidebar.objects
        /\ \A k \in DOMAIN sidebar.objects :
              LET o == sidebar.objects[k] IN
              /\ DOMAIN o = { "type", "label", "items" }
              /\ o.type = "category"
              /\ o.label # ""
              /\ DOMAIN o.items = 1..Len(o.items)
              /\ \A it \in SeqRange(o.items) : WellFormedItem(sidebar, it)
              /\ k \notin Descendants(sidebar, k)
              /\ Cardinality(TopPlaces(sidebar, k)) + Cardinality(ItemPlaces(sidebar, k)) <= 1

C3_Witness ==
    /\ sidebar # NoSidebar
    /\ sidebarVersion # CurrentSidebarVersion
    /\ \E k \in DOMAIN sidebar.objects :
          /\ ItemPlaces(sidebar, k) # {}
          /\ Descendants(sidebar, k) = {}
          /\ ItemDocIds(sidebar.objects[k].items) # {}

\* C5: a build reads the sidebar file once, what it holds from then on is
\* what the file says, and no later step of the build and no request or
\* render changes it.
C5_SidebarReadOnce ==
    /\ [](/\ sidebarReads <= 1
          /\ sidebar # NoSidebar =>
                sidebarReads = 1 /\ sidebar = SidebarVersions[sidebarVersion])
    /\ [][(sidebar # NoSidebar /\ builds' = builds) => sidebar' = sidebar]_vars

C5_Witness ==
    /\ sidebar # NoSidebar
    /\ phase = "published"
    /\ \E v \in Visitors : rendered[v] # NotRendered

\* C6: serving changes nothing that visitors share: a step that is not a
\* step of a build leaves the published site as it is, and after the one
\* build of a site every visitor holds, whatever the others asked for, the
\* response the site gives for that route.
C6_NoSharedMutableState ==
    /\ [](builds <= 1 =>
            \A v \in Visitors :
                response[v] # NoResponse => response[v] = Serve(site, response[v].route))
    /\ [][phase' = phase => site' = site]_vars

C6_Witness ==
    /\ builds = 1
    /\ \A v \in Visitors : response[v] # NoResponse
    /\ \E v \in Visitors : response[v].status = 200 /\ rendered[v] # NotRendered
    /\ \E v \in Visitors : response[v].status = 404

\* C7: every render of the current Home gives one and the same tree, the
\* one the build rendered: the hero link to /docs/frontend/react and the
\* four cards Frontend, Backend, Testing, Projects in that order.
C7_HomeStateless ==
    homeVersion = CurrentHomeVersion =>
        \A v \in Visitors :
            rendered[v] # NotRendered =>
                /\ rendered[v].cta = "/docs/frontend/react"
                /\ [i \in DOMAIN rendered[v].cards |-> rendered[v].cards[i].heading]
                      = << "Frontend", "Backend", "Testing", "Projects" >>
                /\ \A w \in Visitors :
                      rendered[w] # NotRendered => rendered[w] = rendered[v]
                /\ \A p \in site : p.route = "/" => p.body = rendered[v]

C7_Witness ==
    /\ homeVersion = CurrentHomeVersion
    /\ clock > FirstYear
    /\ builds > 1
    /\ \A v \in Visitors : rendered[v] # NotRendered

\* C8, as stated: all evaluations of the configuration module, in any
\* builds of the same sources, give the same value for every field.
C8_SameEveryField ==
    \A c1 \in evaluations, c2 \in evaluations : c1 = c2

WithoutCopyright(c) == [c EXCEPT !.footer.copyright = ""]

\* C8, amended: all evaluations of the configuration module give the same
\* value for every field except footer.copyright, which is the fixed text
\* around the year in which that build evaluated the module.
C8_SameButCopyrightYear ==
    /\ [](\A c1 \in evaluations, c2 \in evaluations :
             WithoutCopyright(c1) = WithoutCopyright(c2))
    /\ [][siteConfig' # siteConfig /\ siteConfig' # NoConfig =>
             /\ siteConfig' \in evaluations'
             /\ siteConfig'.footer.copyright
                   = "Made with Love © " \o ToString(clock) \o " HN Notes"]_vars

C8_Witness ==
    /\ Cardinality(evaluations) > 1
    /\ builds > 1
    /\ \E c1 \in evaluations, c2 \in evaluations :
          c1.footer.copyright # c2.footer.copyright

\* C9: a document's identifier and route come from its path alone:
\* docs/<dir>/<name>.md has the identifier <dir>/<name> and the route
\* /docs/<dir>/<name>, no document's front matter sets an id or a slug, no
\* two documents share a route, and the published site serves each
\* document at its route.
C9_RoutesByPath ==
    docs # << >> =>
        /\ \A i \in DOMAIN docs :
              LET f == DocFiles[i] IN
              /\ f.frontMatter.id = "" /\ f.frontMatter.slug = ""
              /\ docs[i].source = "docs/" \o f.dir \o "/" \o f.name \o "." \o f.ext
              /\ docs[i].id = f.dir \o "/" \o f.name
              /\ docs[i].permalink = "/docs/" \o f.dir \o "/" \o f.name
              /\ phase = "published" =>
                    /\ Serve(site, "/docs/" \o f.dir \o "/" \o f.name).status = 200
                    /\ Serve(site, "/docs/" \o f.dir \o "/" \o f.name).page.body.title
                          = docs[i].source
        /\ \A i \in DOMAIN docs, j \in DOMAIN docs :
              i # j => docs[i].permalink # docs[j].permalink
        /\ phase \in { "routesCreated", "rendered", "checked", "published" } =>
              Cardinality(routes) = Len(docs) + 1

C9_Witness ==
    /\ phase = "published"
    /\ \E v \in Visitors :
          /\ response[v].route = "/docs/frontend/react"
          /\ response[v].status = 200
          /\ response[v].page.body.title = "docs/frontend/react.md"

\* C10: the sidebar the navbar's docSidebar item names is one the sidebar
\* file exports, whichever version of the file the checkout holds, and no
\* build fails for a navbar that names a missing sidebar.
C10_NavbarSidebarExists ==
    /\ error # "navbarSidebar"
    /\ sidebar # NoSidebar =>
          \A it \in SeqRange(siteConfig.navbar.items) :
              it.type = "docSidebar" =>
                  /\ it.sidebarId = "notesSidebar"
                  /\ it.sidebarId \in DOMAIN sidebar.exports
                  /\ it.sidebarId \in DOMAIN SidebarVersions[sidebarVersion].exports

C10_Witness ==
    /\ sidebar # NoSidebar
    /\ sidebarVersion = 1
    /\ \E it \in SeqRange(siteConfig.navbar.items) : it.type = "docSidebar"

\* the sidebar versions of a landing page's generation: the current page
\* goes with the current sidebar, the older page (its Projects card links
\* to projects/project1) with the sidebars that list projects/project1
SameGeneration ==
    \/ homeVersion = CurrentHomeVersion /\ sidebarVersion = CurrentSidebarVersion
    \/ homeVersion # CurrentHomeVersion /\ sidebarVersion \in { 1, 2 }

\* the identifier left when '/docs/' is taken off the front of a link, among
\* the identifiers ids; "" when the link is not '/docs/' before one of them
StripDocs(link, ids) ==
    IF \E id \in ids : "/docs/" \o id = link
    THEN CHOOSE id \in ids : "/docs/" \o id = link
    ELSE ""

\* C11: for a landing page and a sidebar of the same generation, every
\* Link target of the page (the hero link and each card), with '/docs/'
\* taken off, is an identifier the sidebar lists.
C11_HomeLinksInSidebar ==
    (SameGeneration /\ sidebar # NoSidebar) =>
        \A l \in HomeLinks(HomeVersion(homeVersion, Env).tree) :
            LET id == StripDocs(l, SidebarDocIds(sidebar, "notesSidebar")) IN
            /\ id # ""
            /\ id \in SidebarDocIds(sidebar, "notesSidebar")
            /\ "/docs/" \o id = l

C11_Witness ==
    /\ homeVersion # CurrentHomeVersion
    /\ sidebarVersion = 2
    /\ sidebar # NoSidebar
    /\ "/docs/projects/project1" \in HomeLinks(HomeVersion(homeVersion, Env).tree)

\* the places of a sidebar that hold the document identifier id: positions
\* of the exported list, positions of the items lists of its categories
DocTopPlaces(sb, name, id) ==
    { i \in DOMAIN sb.exports[name] : sb.exports[name][i] = D(id) }

DocItemPlaces(sb, name, id) ==
    { p \in UNION { { << o, i >> : i \in DOMAIN sb.objects[o].items } :
                       o \in SidebarObjects(sb, name) \cap DOMAIN sb.objects } :
         sb.objects[p[1]].items[p[2]] = D(id) }

\* C12: in every sidebar definition each document identifier is listed at
\* exactly one place of the whole tree.
C12_IdsListedOnce ==
    sidebar # NoSidebar =>
        \A id \in SidebarDocIds(sidebar, "notesSidebar") :
            Cardinality(DocTopPlaces(sidebar, "notesSidebar", id))
               + Cardinality(DocItemPlaces(sidebar, "notesSidebar", id)) = 1

C12_Witness ==
    /\ sidebar # NoSidebar
    /\ sidebarVersion = 3
    /\ DocItemPlaces(sidebar, "notesSidebar", "symfony/routing") = { << 23, 9 >> }
    /\ Cardinality(SidebarDocIds(sidebar, "notesSidebar")) = 23

\* C13: every document of the docs tree is listed in the current sidebar.
C13_EveryDocListed ==
    (sidebarVersion = CurrentSidebarVersion /\ sidebar # NoSidebar) =>
        /\ docs # << >>
        /\ \A m \in SeqRange(docs) : m.id \in SidebarDocIds(sidebar, "notesSidebar")
        /\ { "test/test-types", "internship/internship-stack", "symfony/form",
             "frontend/angularjs" }
              \subseteq { m.id : m \in SeqRange(docs) }
                           \cap SidebarDocIds(sidebar, "notesSidebar")

C13_Witness ==
    /\ sidebarVersion = CurrentSidebarVersion
    /\ phase = "contentLoaded"
    /\ Len(docs) = Len(DocFiles)
    /\ \E m \in SeqRange(docs) : m.source = "docs/internship/internship-stack.md"

\* C15: in the configuration a build loaded, the default locale 'en' is one
\* of the locales and no locale is listed twice.
C15_LocalesConsistent ==
    siteConfig # NoConfig =>
        LET l == siteConfig.i18n.locales IN
        /\ siteConfig.i18n.defaultLocale = "en"
        /\ \E i \in DOMAIN l : l[i] = siteConfig.i18n.defaultLocale
        /\ \A i \in DOMAIN l, j \in DOMAIN l : l[i] = l[j] => i = j

C15_Witness ==
    /\ phase = "configLoaded"
    /\ Len(siteConfig.i18n.locales) > 0

\* C16: with defaultMode 'dark' and respectPrefersColorScheme false, the
\* mode a first-time visitor starts in is dark whatever the system
\* preference is (light, dark or none): the preference never selects it.
C16_FirstVisitIsDark ==
    \A v \in Visitors :
        theme[v] # NoTheme =>
            /\ theme[v].prefers \in SystemPreferences
            /\ theme[v].mode = "dark"
            /\ theme[v].mode = siteConfig.colorMode.defaultMode

\* Two first visits have happened, one from a system that prefers light and
\* one from a system with no preference.
C16_Witness ==
    \E v, w \in Visitors :
        /\ theme[v].prefers = "light"
        /\ theme[w].prefers = "none"
        /\ theme[v].mode = "dark"
        /\ theme[w].mode = "dark"

====
